---- MODULE Spec2Model ----
(***************************************************************************)
(* Backend warmup layer of the expense dashboard front end:                *)
(*   - the useBackendWarmup hook (src/src/hooks/useBackendWarmup.ts),      *)
(*   - the warmup event emitter and the response interceptor of the api    *)
(*     client (src/unnamed/part_000).                                      *)
(* JavaScript is single threaded: every action below is one task of the    *)
(* event loop (a call, a timer callback, the continuation of an await).    *)
(***************************************************************************)
EXTENDS Integers, Sequences, FiniteSets, TLC

\* ------------------------------------------------------------------ bounds
\* Timer ids handed out by setTimeout are 1..MaxTimerId.
MaxTimerId == 6
\* Listener functions are 1..MaxListenerId; warmupListeners holds at most MaxRegistered.
MaxListenerId == 2
MaxRegistered == 3
\* At most MaxHandles unsubscribe closures per listener are held without having been invoked.
MaxHandles == 2

\* ------------------------------------------------------- hook: the state
VARIABLES
    state,              \* useState<BackendWarmupState>, all queued updates applied
    pingTimeoutRef,     \* pingTimeoutRef.current
    maxTimeoutRef,      \* maxTimeoutRef.current
    isMountedRef,       \* isMountedRef.current
    timers,             \* the timers of the event loop that are armed
    nextId,             \* the id the next setTimeout returns
    pending,            \* pingBackend() calls awaiting their response
    lifecycle,          \* "created" (rendered, effect not run), "mounted", "unmounted"
    renderedIsWarming,  \* state.isWarming as captured by handleRequestError's closure
    hreResult           \* the value the last handleRequestError call returned

hookVars == <<state, pingTimeoutRef, maxTimeoutRef, isMountedRef, timers,
              nextId, pending, lifecycle, renderedIsWarming, hreResult>>

\* ---------------------------------------------- api client: the state
VARIABLES
    warmupListeners,    \* the module-level array of listeners
    handles,            \* per listener, the unsubscribe closures returned and not invoked yet
    usedHandles,        \* the listeners one of whose unsubscribe closures has been invoked
    emit,               \* the forEach of emitWarmupEvent: running, index k, length at start,
                        \* whether the listener of index k - 1 is being called
    called,             \* the listeners the running emitWarmupEvent has invoked, in order
    snapshot,           \* warmupListeners as it was when that emitWarmupEvent started
    removedDuring,      \* the listeners spliced out while that emitWarmupEvent runs
    token               \* localStorage holds 'token' and 'user'

emitterVars == <<warmupListeners, handles, usedHandles, emit, called, snapshot,
                 removedDuring, token>>

\* ------------------------------------------- the classifier on its own
VARIABLES
    error,              \* the error handed to the classifier
    classifiedBy,       \* "none", "hook" or "interceptor": whose isNetworkError ran
    verdict             \* what it returned

classifierVars == <<error, classifiedBy, verdict>>

\* src/components/common/BackendWarmup.tsx
VARIABLES
    props,              \* the props of the last render: [isWarming]
    dots,               \* useState(''), a sequence of "."
    elapsedTime,        \* useState(0)
    dotsInterval,       \* whether the interval of the dots is armed
    timeInterval,       \* whether the interval of the elapsed time is armed
    onWarmupComplete    \* how many times props.onWarmupComplete has been invoked

componentVars == <<props, dots, elapsedTime, dotsInterval, timeInterval, onWarmupComplete>>

vars == <<state, pingTimeoutRef, maxTimeoutRef, isMountedRef, timers,
          nextId, pending, lifecycle, renderedIsWarming, hreResult,
          warmupListeners, handles, usedHandles, emit, called, snapshot,
          removedDuring, token,
          error, classifiedBy, verdict,
          props, dots, elapsedTime, dotsInterval, timeInterval, onWarmupComplete>>

\* null of a timer ref (ids returned by setTimeout are positive)
null == 0

\* ------------------------------------------------------------- the errors
NoResponse == "undefined"

ErrorCodes == {"ECONNABORTED", "ERR_NETWORK", "ERR_BAD_REQUEST", "ERR_BAD_RESPONSE"}

\* error.message: <<>> is undefined, <<m>> is the message m, a sequence of words
ErrorMessages ==
    { <<>>,
      << <<"Network", "Error">> >>,
      << <<"timeout", "of", "30000ms", "exceeded">> >>,
      << <<"Request", "failed", "with", "status", "code">> >>,
      << <<"network", "error">> >>,
      << <<"Error", "Network">> >>,
      << <<"Request", "Timeout">> >>,
      << <<"Network", "Error", "after", "timeout">> >> }

ErrorResponses == {NoResponse, "401", "500"}

Errors == [code : ErrorCodes, message : ErrorMessages, response : ErrorResponses]

\* String.prototype.includes: needle occurs in text as a contiguous run
includes(text, needle) ==
    \E i \in 0..(Len(text) - Len(needle)) :
        \A j \in 1..Len(needle) : text[i + j] = needle[j]

\* error.message?.includes(needle): undefined (falsy) when there is no message
messageIncludes(message, needle) ==
    /\ Len(message) = 1
    /\ includes(message[1], needle)

\* the classifier without its code and message tests
isNetworkErrorResponseOnly(err) ==
    err.response = NoResponse

isNetworkError(err) ==
    \/ err.code = "ECONNABORTED"
    \/ err.code = "ERR_NETWORK"
    \/ messageIncludes(err.message, <<"Network", "Error">>)
    \/ messageIncludes(err.message, <<"timeout">>)
    \/ err.response = NoResponse

\* --------------------------------------------------------------- the probe
\* What GET /health ends in: a status, a network failure, or the 5s abort.
ProbeOutcomes == {"200", "204", "503", "network error", "aborted"}

\* pingBackend: response.status === 200, and false from the catch
pingBackend(outcome) ==
    IF outcome \in {"200", "204"} THEN outcome = "200" ELSE FALSE

\* ------------------------------------------------------------ hook: timers
\* pingInterval, timeout and initialCheckDelay are options of the hook and a
\* probe takes up to 5 s, so armed timers may fire in any order.
clearTimeout(armed, ref) == {t \in armed : t.id # ref}

ProbeTimers == {t \in timers : t.kind \in {"init", "ping"}}
MaxTimers   == {t \in timers : t.kind = "max"}

IsWarming == state.isWarming
IsReady   == ~state.isWarming /\ state.isReady /\ state.error = "null"
IsFailed  == ~state.isWarming /\ ~state.isReady /\ state.error # "null"

\* ---------------------------------------------------------- hook: actions
HookInit ==
    /\ state = [isWarming |-> FALSE, isReady |-> FALSE, error |-> "null"]
    /\ pingTimeoutRef = null
    /\ maxTimeoutRef = null
    /\ isMountedRef = TRUE
    /\ timers = {}
    /\ nextId = 1
    /\ pending = [initial |-> 0, loop |-> 0]
    /\ lifecycle = "created"
    /\ renderedIsWarming = FALSE
    /\ hreResult = FALSE

\* the body of startWarmup(); its callers say what happens to the rest
startWarmup ==
    IF ~isMountedRef
    THEN UNCHANGED <<state, pingTimeoutRef, maxTimeoutRef, timers, nextId>>
    ELSE /\ nextId + 1 <= MaxTimerId
         /\ state' = [state EXCEPT !.isWarming = TRUE, !.error = "null"]
         /\ timers' = clearTimeout(clearTimeout(timers, pingTimeoutRef), maxTimeoutRef)
                        \cup {[id |-> nextId, kind |-> "max"],
                              [id |-> nextId + 1, kind |-> "init"]}
         /\ maxTimeoutRef' = nextId
         /\ nextId' = nextId + 2
         /\ UNCHANGED pingTimeoutRef

\* the effect of the hook runs after the first render
MountEffect ==
    /\ UNCHANGED <<emitterVars, classifierVars, componentVars>>
    /\ lifecycle = "created"
    /\ lifecycle' = "mounted"
    /\ isMountedRef' = TRUE
    /\ pending' = [pending EXCEPT !.initial = 1]
    /\ UNCHANGED <<state, pingTimeoutRef, maxTimeoutRef, timers, nextId,
                   renderedIsWarming, hreResult>>

\* initialCheck that starts the warmup whatever the probe returned
InitialCheckDoneAlwaysWarms(outcome) ==
    /\ UNCHANGED <<emitterVars, classifierVars, componentVars>>
    /\ pending.initial > 0
    /\ pending' = [pending EXCEPT !.initial = 0]
    /\ startWarmup
    /\ UNCHANGED <<isMountedRef, lifecycle, renderedIsWarming, hreResult>>

\* initialCheck resumes after its await
InitialCheckDone(outcome) ==
    /\ UNCHANGED <<emitterVars, classifierVars, componentVars>>
    /\ pending.initial > 0
    /\ pending' = [pending EXCEPT !.initial = 0]
    /\ IF ~pingBackend(outcome) /\ isMountedRef
       THEN startWarmup
       ELSE /\ IF isMountedRef
               THEN state' = [state EXCEPT !.isReady = TRUE]
               ELSE UNCHANGED state
            /\ UNCHANGED <<pingTimeoutRef, maxTimeoutRef, timers, nextId>>
    /\ UNCHANGED <<isMountedRef, lifecycle, renderedIsWarming, hreResult>>

\* a caller of the hook calls the startWarmup it was handed
StartWarmup ==
    /\ UNCHANGED <<emitterVars, classifierVars, componentVars>>
    /\ lifecycle # "created"
    /\ startWarmup
    /\ UNCHANGED <<isMountedRef, pending, lifecycle, renderedIsWarming, hreResult>>

HandleRequestError(err) ==
    /\ UNCHANGED <<emitterVars, classifierVars, componentVars>>
    /\ lifecycle # "created"
    /\ IF isNetworkError(err) /\ ~renderedIsWarming
       THEN /\ startWarmup
            /\ hreResult' = TRUE
       ELSE /\ hreResult' = FALSE
            /\ UNCHANGED <<state, pingTimeoutRef, maxTimeoutRef, timers, nextId>>
    /\ UNCHANGED <<isMountedRef, pending, lifecycle, renderedIsWarming>>

\* the callback of the overall timeout with its isMountedRef test inverted
MaxTimeoutFireWhenUnmounted(t) ==
    /\ UNCHANGED <<emitterVars, classifierVars, componentVars>>
    /\ t \in MaxTimers
    /\ timers' = timers \ {t}
    /\ IF ~isMountedRef
       THEN state' = [isWarming |-> FALSE, isReady |-> FALSE, error |-> "timeout"]
       ELSE UNCHANGED state
    /\ UNCHANGED <<pingTimeoutRef, maxTimeoutRef, isMountedRef, nextId, pending,
                   lifecycle, renderedIsWarming, hreResult>>

\* the callback of the overall timeout
MaxTimeoutFire(t) ==
    /\ UNCHANGED <<emitterVars, classifierVars, componentVars>>
    /\ t \in MaxTimers
    /\ timers' = timers \ {t}
    /\ IF isMountedRef
       THEN state' = [isWarming |-> FALSE, isReady |-> FALSE, error |-> "timeout"]
       ELSE UNCHANGED state
    /\ UNCHANGED <<pingTimeoutRef, maxTimeoutRef, isMountedRef, nextId, pending,
                   lifecycle, renderedIsWarming, hreResult>>

\* checkAndPing is called by a timer and runs up to its await
CheckAndPingFire(t) ==
    /\ UNCHANGED <<emitterVars, classifierVars, componentVars>>
    /\ t \in ProbeTimers
    /\ timers' = timers \ {t}
    /\ IF isMountedRef
       THEN pending' = [pending EXCEPT !.loop = @ + 1]
       ELSE UNCHANGED pending
    /\ UNCHANGED <<state, pingTimeoutRef, maxTimeoutRef, isMountedRef, nextId,
                   lifecycle, renderedIsWarming, hreResult>>

\* checkAndPing that reports a failed probe as the failure of the warmup
CheckAndPingDoneSurfacesFailure(outcome) ==
    /\ UNCHANGED <<emitterVars, classifierVars, componentVars>>
    /\ pending.loop > 0
    /\ pending' = [pending EXCEPT !.loop = @ - 1]
    /\ IF pingBackend(outcome)
       THEN /\ timers' = clearTimeout(clearTimeout(timers, maxTimeoutRef), pingTimeoutRef)
            /\ state' = [isWarming |-> FALSE, isReady |-> TRUE, error |-> "null"]
       ELSE /\ timers' = timers
            /\ state' = [isWarming |-> FALSE, isReady |-> FALSE, error |-> "timeout"]
    /\ UNCHANGED <<pingTimeoutRef, nextId>>
    /\ UNCHANGED <<maxTimeoutRef, isMountedRef, lifecycle, renderedIsWarming, hreResult>>

\* checkAndPing resumes after its await
CheckAndPingDone(outcome) ==
    /\ UNCHANGED <<emitterVars, classifierVars, componentVars>>
    /\ pending.loop > 0
    /\ pending' = [pending EXCEPT !.loop = @ - 1]
    /\ IF pingBackend(outcome)
       THEN /\ timers' = clearTimeout(clearTimeout(timers, maxTimeoutRef), pingTimeoutRef)
            /\ state' = [isWarming |-> FALSE, isReady |-> TRUE, error |-> "null"]
            /\ UNCHANGED <<pingTimeoutRef, nextId>>
       ELSE /\ nextId <= MaxTimerId
            /\ pingTimeoutRef' = nextId
            /\ timers' = timers \cup {[id |-> nextId, kind |-> "ping"]}
            /\ nextId' = nextId + 1
            /\ UNCHANGED state
    /\ UNCHANGED <<maxTimeoutRef, isMountedRef, lifecycle, renderedIsWarming, hreResult>>

\* the cleanup of the effect
Unmount ==
    /\ UNCHANGED <<emitterVars, classifierVars, componentVars>>
    /\ lifecycle = "mounted"
    /\ lifecycle' = "unmounted"
    /\ isMountedRef' = FALSE
    /\ timers' = clearTimeout(clearTimeout(timers, pingTimeoutRef), maxTimeoutRef)
    /\ UNCHANGED <<state, pingTimeoutRef, maxTimeoutRef, nextId, pending,
                   renderedIsWarming, hreResult>>

\* React renders again: handleRequestError is rebuilt over the current state
Render ==
    /\ UNCHANGED <<emitterVars, classifierVars, componentVars>>
    /\ lifecycle = "mounted"
    /\ renderedIsWarming # state.isWarming
    /\ renderedIsWarming' = state.isWarming
    /\ UNCHANGED <<state, pingTimeoutRef, maxTimeoutRef, isMountedRef, timers,
                   nextId, pending, lifecycle, hreResult>>

Next ==
    \/ MountEffect
    \/ \E o \in ProbeOutcomes : InitialCheckDone(o)
    \/ StartWarmup
    \/ \E e \in Errors : HandleRequestError(e)
    \/ \E t \in timers : MaxTimeoutFire(t)
    \/ \E t \in timers : CheckAndPingFire(t)
    \/ \E o \in ProbeOutcomes : CheckAndPingDone(o)
    \/ Unmount
    \/ Render

\* ------------------------------------------------ api client: the emitter
Listeners == 1..MaxListenerId

\* Array.prototype.indexOf, 0-based, -1 when absent
indexOf(array, listener) ==
    IF \E i \in 1..Len(array) : array[i] = listener
    THEN (CHOOSE i \in 1..Len(array) :
              /\ array[i] = listener
              /\ \A j \in 1..(i - 1) : array[j] # listener) - 1
    ELSE -1

\* splice that takes out the element after the one asked for
spliceOffByOne(array, index) ==
    [i \in 1..(Len(array) - 1) |-> IF i <= index + 1 THEN array[i] ELSE array[i + 1]]

\* Array.prototype.splice(index, 1), index 0-based
splice(array, index) ==
    [i \in 1..(Len(array) - 1) |-> IF i <= index THEN array[i] ELSE array[i + 1]]

EmitterInit ==
    /\ warmupListeners = <<>>
    /\ handles = [l \in 1..MaxListenerId |-> 0]
    /\ usedHandles = {}
    /\ emit = [active |-> FALSE, k |-> 0, len |-> 0, calling |-> FALSE, needsWarmup |-> FALSE]
    /\ called = <<>>
    /\ snapshot = <<>>
    /\ removedDuring = {}
    /\ token = TRUE

\* Code outside the emitter runs between two events, or inside the listener
\* that forEach is calling.
CallerRuns == ~emit.active \/ emit.calling

\* onBackendWarmupNeeded(listener)
Subscribe(listener) ==
    /\ UNCHANGED <<hookVars, classifierVars, componentVars>>
    /\ CallerRuns
    /\ Len(warmupListeners) < MaxRegistered
    /\ warmupListeners' = Append(warmupListeners, listener)
    /\ handles[listener] < MaxHandles
    /\ handles' = [handles EXCEPT ![listener] = @ + 1]
    /\ UNCHANGED <<usedHandles, emit, called, snapshot, removedDuring, token>>

\* the body of the closure onBackendWarmupNeeded(listener) returned
unsubscribeHandle(listener) ==
    LET index == indexOf(warmupListeners, listener) IN
    IF index > -1
    THEN /\ warmupListeners' = splice(warmupListeners, index)
         /\ removedDuring' = IF emit.active
                             THEN removedDuring \cup {listener}
                             ELSE removedDuring
    ELSE UNCHANGED <<warmupListeners, removedDuring>>

\* a caller invokes, for the first time, a closure onBackendWarmupNeeded(listener) returned
Unsubscribe(listener) ==
    /\ UNCHANGED <<hookVars, classifierVars, componentVars>>
    /\ CallerRuns
    /\ handles[listener] > 0
    /\ unsubscribeHandle(listener)
    /\ handles' = [handles EXCEPT ![listener] = @ - 1]
    /\ usedHandles' = usedHandles \cup {listener}
    /\ UNCHANGED <<emit, called, snapshot, token>>

\* a caller invokes once more a closure it has invoked before
UnsubscribeAgain(listener) ==
    /\ UNCHANGED <<hookVars, classifierVars, componentVars>>
    /\ CallerRuns
    /\ listener \in usedHandles
    /\ unsubscribeHandle(listener)
    /\ UNCHANGED <<handles, usedHandles, emit, called, snapshot, token>>

\* emitWarmupEvent(needsWarmup) enters forEach
emitWarmupEvent(needsWarmup) ==
    /\ emit' = [active |-> TRUE, k |-> 0, len |-> Len(warmupListeners),
                calling |-> FALSE, needsWarmup |-> needsWarmup]
    /\ called' = <<>>
    /\ snapshot' = warmupListeners
    /\ removedDuring' = {}
    /\ UNCHANGED <<warmupListeners, handles, usedHandles>>

\* one round of forEach: index k is visited when the array still has it
ForEachStep ==
    /\ UNCHANGED <<hookVars, classifierVars, componentVars>>
    /\ emit.active
    /\ emit.k < emit.len
    /\ emit' = [emit EXCEPT !.k = @ + 1, !.calling = emit.k < Len(warmupListeners)]
    /\ called' = IF emit.k < Len(warmupListeners)
                 THEN Append(called, warmupListeners[emit.k + 1])
                 ELSE called
    /\ UNCHANGED <<warmupListeners, handles, usedHandles, snapshot, removedDuring, token>>

\* forEach returns
ForEachReturn ==
    /\ UNCHANGED <<hookVars, classifierVars, componentVars>>
    /\ emit.active
    /\ emit.k = emit.len
    /\ emit' = [active |-> FALSE, k |-> 0, len |-> 0, calling |-> FALSE, needsWarmup |-> FALSE]
    /\ called' = <<>>
    /\ snapshot' = <<>>
    /\ removedDuring' = {}
    /\ UNCHANGED <<warmupListeners, handles, usedHandles, token>>

\* the listener forEach is calling throws: nothing catches it, forEach,
\* emitWarmupEvent and the interceptor are left by the exception
ListenerThrows ==
    /\ UNCHANGED <<hookVars, classifierVars, componentVars>>
    /\ emit.active
    /\ emit.calling
    /\ emit' = [active |-> FALSE, k |-> 0, len |-> 0, calling |-> FALSE, needsWarmup |-> FALSE]
    /\ called' = <<>>
    /\ snapshot' = <<>>
    /\ removedDuring' = {}
    /\ UNCHANGED <<warmupListeners, handles, usedHandles, token>>

interceptorIsNetworkError(err) ==
    \/ err.code = "ECONNABORTED"
    \/ err.code = "ERR_NETWORK"
    \/ messageIncludes(err.message, <<"Network", "Error">>)
    \/ messageIncludes(err.message, <<"timeout">>)
    \/ err.response = NoResponse

\* the response interceptor, a response arrived
ResponseFulfilled ==
    /\ UNCHANGED <<hookVars, classifierVars, componentVars>>
    /\ ~emit.active
    /\ emitWarmupEvent(FALSE)
    /\ UNCHANGED token

\* the response interceptor, the request failed
ResponseRejected(err) ==
    /\ UNCHANGED <<hookVars, classifierVars, componentVars>>
    /\ ~emit.active
    /\ IF interceptorIsNetworkError(err)
       THEN /\ emitWarmupEvent(TRUE)
            /\ UNCHANGED token
       ELSE /\ token' = IF err.response = "401" THEN FALSE ELSE token
            /\ UNCHANGED <<warmupListeners, handles, usedHandles, emit, called, snapshot,
                           removedDuring>>

EmitterNext ==
    \/ \E l \in Listeners : Subscribe(l)
    \/ \E l \in Listeners : Unsubscribe(l)
    \/ \E l \in Listeners : UnsubscribeAgain(l)
    \/ ResponseFulfilled
    \/ \E e \in Errors : ResponseRejected(e)
    \/ ForEachStep
    \/ ForEachReturn
    \/ ListenerThrows

\* ------------------------------------------------ the classifier on its own
NoError == [code |-> "none", message |-> <<>>, response |-> NoResponse]

ClassifierIdle ==
    /\ error = NoError
    /\ classifiedBy = "none"
    /\ verdict = FALSE

ClassifyInHook ==
    /\ UNCHANGED <<hookVars, emitterVars, componentVars>>
    /\ classifiedBy = "none"
    /\ classifiedBy' = "hook"
    /\ verdict' = isNetworkError(error)
    /\ UNCHANGED error

ClassifyInInterceptor ==
    /\ UNCHANGED <<hookVars, emitterVars, componentVars>>
    /\ classifiedBy = "none"
    /\ classifiedBy' = "interceptor"
    /\ verdict' = interceptorIsNetworkError(error)
    /\ UNCHANGED error

ClassifierNext ==
    \/ ClassifyInHook
    \/ ClassifyInInterceptor

\* ------------------------------------------------------ the specifications
\* the seconds counted and the completions reported in a behaviour
MaxElapsed == 6
MaxCompletions == 3

\* BackendWarmup mounted by a parent that is not warming
ComponentInit ==
    /\ props = [isWarming |-> FALSE]
    /\ dots = <<>>
    /\ elapsedTime = 0
    /\ dotsInterval = FALSE
    /\ timeInterval = FALSE
    /\ onWarmupComplete = 0

\* the second effect, run after a render with the given isWarming and elapsedTime
completionEffect(isWarming, elapsed) ==
    IF ~isWarming /\ elapsed > 0
    THEN /\ elapsedTime' = 0
         /\ dots' = <<>>
         /\ onWarmupComplete' = onWarmupComplete + 1
    ELSE /\ elapsedTime' = elapsed
         /\ UNCHANGED <<dots, onWarmupComplete>>

\* the parent renders the component with isWarming true: the first effect arms the intervals
WarmingStarts ==
    /\ UNCHANGED <<hookVars, emitterVars, classifierVars>>
    /\ ~props.isWarming
    /\ props' = [props EXCEPT !.isWarming = TRUE]
    /\ dotsInterval' = TRUE
    /\ timeInterval' = TRUE
    /\ completionEffect(TRUE, elapsedTime)

\* the callback of dotsInterval
DotsTick ==
    /\ UNCHANGED <<hookVars, emitterVars, classifierVars>>
    /\ dotsInterval
    /\ dots' = IF Len(dots) >= 3 THEN <<>> ELSE dots \o <<".">>
    /\ UNCHANGED <<props, elapsedTime, dotsInterval, timeInterval, onWarmupComplete>>

\* the callback of timeInterval, and the second effect after the render it causes
TimeTick ==
    /\ UNCHANGED <<hookVars, emitterVars, classifierVars>>
    /\ timeInterval
    /\ elapsedTime < MaxElapsed
    /\ completionEffect(props.isWarming, elapsedTime + 1)
    /\ UNCHANGED <<props, dotsInterval, timeInterval>>

\* the parent renders the component with isWarming false: the cleanup of the
\* first effect clears the intervals, then the second effect runs
WarmingEnds ==
    /\ UNCHANGED <<hookVars, emitterVars, classifierVars>>
    /\ props.isWarming
    /\ onWarmupComplete < MaxCompletions
    /\ props' = [props EXCEPT !.isWarming = FALSE]
    /\ dotsInterval' = FALSE
    /\ timeInterval' = FALSE
    /\ completionEffect(FALSE, elapsedTime)

ComponentNext ==
    \/ WarmingStarts
    \/ DotsTick
    \/ TimeTick
    \/ WarmingEnds

Init == HookInit /\ EmitterInit /\ ClassifierIdle /\ ComponentInit

\* the BackendWarmup component
SpecComponent == Init /\ [][ComponentNext]_vars

\* the hook
Spec == Init /\ [][Next]_vars

\* the hook, an armed overall timeout fires in the end (the event loop
\* runs every timer that is not cleared)
SpecFair == Spec /\ WF_vars(\E t \in timers : MaxTimeoutFire(t))

\* the warmup event emitter and the response interceptor
SpecEmitter == Init /\ [][EmitterNext]_vars

ClassifierInit ==
    /\ HookInit
    /\ EmitterInit
    /\ ComponentInit
    /\ error \in Errors
    /\ classifiedBy = "none"
    /\ verdict = FALSE

\* isNetworkError applied to every error of Errors
SpecClassifier == ClassifierInit /\ [][ClassifierNext]_vars

TypeOK ==
    /\ state \in [isWarming : BOOLEAN, isReady : BOOLEAN, error : {"null", "timeout"}]
    /\ pingTimeoutRef \in 0..MaxTimerId
    /\ maxTimeoutRef \in 0..MaxTimerId
    /\ nextId \in 1..(MaxTimerId + 1)
    /\ \A t \in timers : t.id < nextId
    /\ Len(warmupListeners) <= MaxRegistered
    /\ emit.k <= emit.len

\* ------------------------------------------------------------ the claims

\* probe chains alive: a scheduled checkAndPing, or one waiting for its probe
ProbeChains == Cardinality(ProbeTimers) + pending.loop

\* C1: startWarmup() called while the coordinator is Warming is a no-op: it
\* leaves the number of probe chains and of overall-timeout timers as they were.
C1_StartWarmupWhileWarmingIsNoOp ==
    [][(StartWarmup /\ isMountedRef /\ state.isWarming)
          => /\ ProbeChains' = ProbeChains
             /\ Cardinality(MaxTimers') = Cardinality(MaxTimers)]_vars

\* C2: in every reachable state at most one scheduled probe callback
\* (initial-delay or inter-probe) and at most one overall-timeout timer is armed.
C2_AtMostOneTimerOfEachKind ==
    /\ Cardinality(ProbeTimers) <= 1
    /\ Cardinality(MaxTimers) <= 1

\* C3: a probe of the loop that returns true while the coordinator is Warming
\* (the overall timeout has not fired) makes it Ready, leaves no timer armed
\* and no other probe under way, so that no further probe follows.
C3_TrueProbeEndsTheWarmup ==
    [][(/\ state.isWarming
        /\ isMountedRef
        /\ \E o \in ProbeOutcomes : pingBackend(o) /\ CheckAndPingDone(o))
          => /\ IsReady'
             /\ timers' = {}
             /\ pending'.loop = 0]_vars

\* C4: when the overall timeout fires while the coordinator is Warming, it
\* becomes Failed with the timeout error and no probe callback stays scheduled.
C4_TimeoutFailsAndCancelsTheLoop ==
    [][(/\ state.isWarming
        /\ isMountedRef
        /\ \E t \in timers : MaxTimeoutFire(t))
          => /\ IsFailed'
             /\ state'.error = "timeout"
             /\ ProbeTimers' = {}]_vars

\* C5: once Failed, no completion of a loop probe and no timer callback
\* changes the state.
C5_FailedIsTerminal ==
    [][(/\ IsFailed
        /\ \/ \E o \in ProbeOutcomes : CheckAndPingDone(o)
           \/ \E t \in timers : CheckAndPingFire(t)
           \/ \E t \in timers : MaxTimeoutFire(t))
          => state' = state]_vars

\* C6: handleRequestError(error) returns true exactly when the classifier
\* takes error for unreachable and the coordinator is not Warming; when it
\* returns false, the warmup state and the timers are unchanged.
C6_HandleRequestErrorResult ==
    [][\A e \in Errors :
          HandleRequestError(e)
            => /\ hreResult' = (isNetworkError(e) /\ ~state.isWarming)
               /\ ~hreResult' => UNCHANGED <<state, timers, pingTimeoutRef, maxTimeoutRef>>]_vars

\* the messages of ErrorMessages that contain 'Network Error' or 'timeout'
MarkedMessages ==
    { << <<"Network", "Error">> >>,
      << <<"timeout", "of", "30000ms", "exceeded">> >>,
      << <<"Network", "Error", "after", "timeout">> >> }

C8_LateProbeResultIsDiscarded ==
    [][(/\ ~isMountedRef
        /\ \/ \E o \in ProbeOutcomes : CheckAndPingDone(o)
           \/ \E o \in ProbeOutcomes : InitialCheckDone(o))
          => state' = state]_vars

\* C9: after the cleanup of the effect no timer of the hook is armed.
C9_NoTimerAfterTeardown ==
    lifecycle = "unmounted" => timers = {}

NotRemoved(listener) == listener \notin removedDuring

\* C10: when forEach has gone through its indices, the listeners that were
\* registered at the start and not unsubscribed meanwhile have been invoked
\* exactly once each, in registration order.
C10_EveryRemainingListenerInvokedOnceInOrder ==
    (emit.active /\ emit.k = emit.len)
        => SelectSeq(called, NotRemoved) = SelectSeq(snapshot, NotRemoved)

\* the registrations of a listener in warmupListeners
Registrations(listener) ==
    {i \in 1..Len(warmupListeners) : warmupListeners[i] = listener}

Registered(listener) == Registrations(listener) # {}

\* C11: a handle invoked while emitWarmupEvent runs takes the last registration
\* of its listener out of the array (and leaves the array alone when there is
\* none: it never fails); forEach invokes only listeners that are registered
\* at that moment; only onBackendWarmupNeeded registers a listener. Hence an
\* unsubscribed listener gets neither the current nor any later notification.
C11_UnsubscribedListenerIsNotNotified ==
    [][/\ \A l \in Listeners :
            ((Unsubscribe(l) \/ UnsubscribeAgain(l)) /\ emit.active)
              => /\ Cardinality(Registrations(l)) <= 1 => ~Registered(l)'
                 /\ ~Registered(l) => warmupListeners' = warmupListeners
       /\ Len(called') > Len(called) => Registered(called'[Len(called')])
       /\ \A l \in Listeners :
            (~Registered(l) /\ Registered(l)') => Subscribe(l)]_vars

\* C11 witness: a notification has gone through all its indices; a listener
\* registered at its start was unsubscribed meanwhile and has not been invoked
C11_Witness ==
    /\ emit.active
    /\ emit.k = emit.len
    /\ \E l \in removedDuring :
          /\ \E i \in 1..Len(snapshot) : snapshot[i] = l
          /\ \A i \in 1..Len(called) : called[i] # l
          /\ ~Registered(l)

\* C12: when a listener throws, no listener registered after it is left
\* without its invocation.
C12_ThrowingListenerDoesNotStopTheOthers ==
    [][ListenerThrows
          => ~(emit.k < emit.len /\ emit.k < Len(warmupListeners))]_vars

\* C13: invoking a handle a second time changes nothing.
C13_SecondInvocationOfAHandleIsNoOp ==
    [][\A l \in Listeners :
          UnsubscribeAgain(l) => warmupListeners' = warmupListeners]_vars

\* C14: at most one probe of the hook is in flight.
C14_AtMostOneProbeInFlight ==
    pending.initial + pending.loop <= 1

\* C15: isWarming and isReady are never both true, and error is non-null
\* only when both are false.
C15_StateIsOneOfFour ==
    /\ ~(state.isWarming /\ state.isReady)
    /\ state.error # "null" => (~state.isWarming /\ ~state.isReady)

IsIdle == state = [isWarming |-> FALSE, isReady |-> FALSE, error |-> "null"]

\* C17: the effect issues the initial probe, once; when that probe returns
\* true no timer is armed and Idle becomes Ready; when it returns false
\* startWarmup runs once (Warming, one overall timeout and one initial delay armed).
C17_InitialCheck ==
    [][/\ pending'.initial <= 1
       /\ pending'.initial > pending.initial => (MountEffect /\ lifecycle = "created")
       /\ lifecycle # "created" => lifecycle' # "created"
       /\ \A o \in ProbeOutcomes :
            (InitialCheckDone(o) /\ isMountedRef)
              => IF o = "200"
                 THEN /\ timers' = timers
                      /\ nextId' = nextId
                      /\ IsIdle => IsReady'
                 ELSE /\ state'.isWarming
                      /\ nextId' = nextId + 2
                      /\ Cardinality(MaxTimers') = 1
                      /\ Cardinality(ProbeTimers') = Cardinality(ProbeTimers \ {t \in timers : t.id = pingTimeoutRef}) + 1]_vars

\* C17 witness: the initial probe returned true, the hook is Ready and never armed a timer
C17_Witness ==
    /\ lifecycle = "mounted"
    /\ pending.initial = 0
    /\ IsReady
    /\ nextId = 1

\* C18: error becomes non-null only in the callback of the overall timeout,
\* and a probe that returns false neither sets error nor makes the state Failed.
C18_OnlyTheTimeoutIsAnError ==
    [][/\ (state.error = "null" /\ state'.error # "null")
            => \E t \in timers : MaxTimeoutFire(t)
       /\ \A o \in ProbeOutcomes \ {"200"} :
            (CheckAndPingDone(o) \/ InitialCheckDone(o))
              => /\ state'.error \in {state.error, "null"}
                 /\ IsFailed' => IsFailed]_vars

\* C18 witness: probes have failed and rescheduled, and the error came with the timeout
C18_Witness ==
    /\ state.error = "timeout"
    /\ pingTimeoutRef # null
    /\ ProbeChains > 0

ReadyFlags == state.isReady /\ ~state.isWarming

\* C19: once isReady is true and isWarming false, no timer callback and no
\* completion of a loop probe changes the state, and that condition ends
\* only in a step that runs startWarmup.
C19_ReadyIsStable ==
    [][ReadyFlags =>
         /\ (\/ \E o \in ProbeOutcomes : CheckAndPingDone(o)
             \/ \E t \in timers : CheckAndPingFire(t)
             \/ \E t \in timers : MaxTimeoutFire(t)) => state' = state
         /\ ~ReadyFlags' => (\/ StartWarmup
                             \/ \E e \in Errors : HandleRequestError(e)
                             \/ \E o \in ProbeOutcomes \ {"200"} : InitialCheckDone(o))]_vars

\* C20: every render that takes isWarming from true to false invokes
\* onWarmupComplete once and leaves elapsedTime 0 and dots empty, and
\* onWarmupComplete is invoked only after a render with isWarming false.
C20_CompletionIsReportedOnce ==
    [][/\ (props.isWarming /\ ~props'.isWarming)
            => /\ onWarmupComplete' = onWarmupComplete + 1
               /\ elapsedTime' = 0
               /\ dots' = <<>>
       /\ onWarmupComplete' # onWarmupComplete => ~props'.isWarming]_vars

====
